---- MODULE Spec2Model ----
(***************************************************************************)
(* A model of pykonal_eq.inventory.TTInventory: a container file holding   *)
(* one shared grid geometry ("meta") and one array per key ("data"), with  *)
(* add, windowed read, close / __del__ / __exit__ and the mode setter.     *)
(*                                                                         *)
(* Coordinates are integers: every coordinate of the model is an integer   *)
(* below 2^53, which float64 holds exactly, so the subtraction, the floor  *)
(* and the ceil of read() are exact; the quotient is taken as the exact    *)
(* rational.  The cast astype(np.int32) keeps its 32-bit width.            *)
(***************************************************************************)
EXTENDS Integers, Sequences, FiniteSets, TLC

VARIABLES
    handle,   \* self._f5: "open" or "closed" (h5py.File validity)
    mode,     \* self._mode
    meta,     \* the file's "meta" group: <<>> when absent, else <<geometry>>
    data,     \* the file's "data" group: key -> stored array
    added,    \* history: key -> the field its successful add() was given,
              \* for the datasets of the file's current contents
    ret       \* the last call: its arguments, its outcome and its locals

vars == <<handle, mode, meta, data, added, ret>>

----------------------------------------------------------------------------
(* Bounds of the model *)

MaxKey == 2
MaxSeed == 2
ReqMax == 4

(* Program constants *)

NDim == 3
Int32Max == 2147483647
Int32Min == -Int32Max - 1

Axes == 1..NDim
None == <<>>
\* Dataset names; the code takes any string, the model numbers them.
Keys == 1..MaxKey

\* h5py's file modes: read-only, read-write on an existing file, create or
\* truncate, create and fail if the file exists.
Modes == {"r", "r+", "w", "w-"}

(* What a float -> int32 cast of an out-of-range value may give: numpy      *)
(* leaves it to the C cast, which is undefined; x86 gives INT_MIN, a        *)
(* saturating target INT_MAX.                                               *)
CastOverflow == {Int32Min, Int32Max}

----------------------------------------------------------------------------
(* Fields handed to add() *)

Base ==
    [coord_sys |-> "cartesian", field_type |-> "scalar",
     min_coords |-> <<0, 0, 0>>, node_intervals |-> <<1, 2, 1>>,
     npts |-> <<4, 2, 2>>]

Geometry(f) ==
    [coord_sys |-> f.coord_sys, field_type |-> f.field_type,
     min_coords |-> f.min_coords, node_intervals |-> f.node_intervals,
     npts |-> f.npts]

\* The number of components (tags and vector elements) in which g and h differ.
Differences(g, h) ==
      (IF g.coord_sys # h.coord_sys THEN 1 ELSE 0)
    + (IF g.field_type # h.field_type THEN 1 ELSE 0)
    + Cardinality({a \in Axes : g.min_coords[a] # h.min_coords[a]})
    + Cardinality({a \in Axes : g.node_intervals[a] # h.node_intervals[a]})
    + Cardinality({a \in Axes : g.npts[a] # h.npts[a]})

Near(v, d) == {<<v[1] + a, v[2] + b, v[3] + c>> : a \in {0, d}, b \in {0, d}, c \in {0, d}}

\* Base and every geometry that differs from it in exactly one component.
Geoms ==
    {g \in [coord_sys : {"cartesian", "spherical"},
            field_type : {"scalar", "vector"},
            min_coords : Near(Base.min_coords, 1),
            node_intervals : Near(Base.node_intervals, 1),
            npts : Near(Base.npts, -1)] : Differences(g, Base) <= 1}

Idx(n) == (0..(n[1] - 1)) \X (0..(n[2] - 1)) \X (0..(n[3] - 1))

NodeValue(seed, i, field_type) ==
    LET v == 1000 * seed + 100 * i[1] + 10 * i[2] + i[3]
    IN  IF field_type = "vector" THEN <<v, v + 1, v + 2>> ELSE <<v>>

FieldOf(g, seed) ==
    [coord_sys |-> g.coord_sys, field_type |-> g.field_type,
     min_coords |-> g.min_coords, node_intervals |-> g.node_intervals,
     npts |-> g.npts,
     values |-> [i \in Idx(g.npts) |-> NodeValue(seed, i, g.field_type)]]

\* Every seed on Base, and one field on each other geometry.
Fields == {FieldOf(Base, seed) : seed \in 1..MaxSeed} \cup {FieldOf(g, 1) : g \in Geoms}

MaxCoords(g) == [a \in Axes |-> g.min_coords[a] + g.node_intervals[a] * (g.npts[a] - 1)]

----------------------------------------------------------------------------
(* numpy *)

Floor(a, b) == a \div b
Ceil(a, b) == -((-a) \div b)

Min2(a, b) == IF a < b THEN a ELSE b
Max2(a, b) == IF a > b THEN a ELSE b

\* np.clip(x, lo, hi) = minimum(maximum(x, lo), hi)
Clip(x, lo, hi) == Min2(Max2(x, lo), hi)

\* (x + inc).astype(np.int32), x + inc a float64; ovf is what the cast gives
\* when x + inc is above the int32 range.
AstypeInt32(x, inc, ovf) == IF x > Int32Max - inc THEN ovf ELSE x + inc

----------------------------------------------------------------------------
(* read(): the index window *)

IdxStart(min_coords, g, ovf) ==
    IF min_coords = None
    THEN [a \in Axes |-> 0]
    ELSE [a \in Axes |->
            Clip(AstypeInt32(Floor(min_coords[a] - g.min_coords[a], g.node_intervals[a]), 0, ovf),
                 0, g.npts[a] - 1)]

\* Mutant: the end index without the extra node (ceil(...) taken as exclusive).
IdxEndNoExtra(max_coords, idx_start, g, ovf) ==
    IF max_coords = None
    THEN g.npts
    ELSE [a \in Axes |->
            Clip(AstypeInt32(Ceil(max_coords[a] - g.min_coords[a], g.node_intervals[a]), 0, ovf),
                 idx_start[a] + 1, g.npts[a])]

\* Mutant: the end index one node too far.
IdxEndWide(max_coords, idx_start, g, ovf) ==
    IF max_coords = None
    THEN g.npts
    ELSE [a \in Axes |->
            Clip(AstypeInt32(Ceil(max_coords[a] - g.min_coords[a], g.node_intervals[a]), 2, ovf),
                 idx_start[a] + 1, g.npts[a])]

IdxEnd(max_coords, idx_start, g, ovf) ==
    IF max_coords = None
    THEN g.npts
    ELSE [a \in Axes |->
            Clip(AstypeInt32(Ceil(max_coords[a] - g.min_coords[a], g.node_intervals[a]), 1, ovf),
                 idx_start[a] + 1, g.npts[a])]

BadRange(min_coords, max_coords) ==
    /\ min_coords # None
    /\ max_coords # None
    /\ \E a \in Axes : min_coords[a] >= max_coords[a]

\* dataset[slice(start[0], end[0]), slice(start[1], end[1]), slice(start[2], end[2])]
Slice(values, idx_start, idx_end) ==
    LET n == [a \in Axes |-> idx_end[a] - idx_start[a]]
        at(i) == <<i[1] + idx_start[1], i[2] + idx_start[2], i[3] + idx_start[3]>>
    IN  [i \in {j \in Idx(n) : at(j) \in DOMAIN values} |-> values[at(i)]]

\* Mutant: the window's min_coords left at the recorded minimum.
WindowFieldUnshifted(g, values, idx_start, idx_end) ==
    [coord_sys |-> g.coord_sys, field_type |-> g.field_type,
     min_coords |-> g.min_coords,
     node_intervals |-> g.node_intervals,
     npts |-> [a \in Axes |-> idx_end[a] - idx_start[a]],
     values |-> Slice(values, idx_start, idx_end)]

WindowField(g, values, idx_start, idx_end) ==
    [coord_sys |-> g.coord_sys, field_type |-> g.field_type,
     min_coords |-> [a \in Axes |-> g.min_coords[a] + idx_start[a] * g.node_intervals[a]],
     node_intervals |-> g.node_intervals,
     npts |-> [a \in Axes |-> idx_end[a] - idx_start[a]],
     values |-> Slice(values, idx_start, idx_end)]

----------------------------------------------------------------------------
(* The record of a call: op and its arguments, the handle and the keys the  *)
(* call found, its outcome, and for read() the locals idx_start and idx_end *)

Call(op, key, min_coords, max_coords, status, field, idx_start, idx_end) ==
    [op |-> op, pre |-> [handle |-> handle, keys |-> DOMAIN data], key |-> key,
     min_coords |-> min_coords, max_coords |-> max_coords, status |-> status,
     field |-> field, idx_start |-> idx_start, idx_end |-> idx_end]

Raised(op, key, min_coords, max_coords, status, field) ==
    Call(op, key, min_coords, max_coords, status, field, None, None)

Init ==
    /\ handle = "open"
    /\ mode \in Modes
    /\ meta = <<>>
    /\ data = <<>>
    /\ added = <<>>
    /\ ret = [op |-> "init", pre |-> [handle |-> "closed", keys |-> {}], key |-> 0,
              min_coords |-> None, max_coords |-> None, status |-> "ok",
              field |-> <<>>, idx_start |-> None, idx_end |-> None]

----------------------------------------------------------------------------
(* add() *)

Writable == mode # "r"

\* Mutant: only the tags are compared.
GeometryMatchesTagsOnly(field, g) ==
    /\ field.coord_sys = g.coord_sys
    /\ field.field_type = g.field_type

\* Mutant: npts is not compared.
GeometryMatchesNoNpts(field, g) ==
    /\ field.coord_sys = g.coord_sys
    /\ field.field_type = g.field_type
    /\ \A a \in Axes : field.min_coords[a] = g.min_coords[a]
    /\ \A a \in Axes : field.node_intervals[a] = g.node_intervals[a]

GeometryMatches(field, g) ==
    /\ field.coord_sys = g.coord_sys
    /\ field.field_type = g.field_type
    /\ \A a \in Axes : field.min_coords[a] = g.min_coords[a]
    /\ \A a \in Axes : field.node_intervals[a] = g.node_intervals[a]
    /\ \A a \in Axes : field.npts[a] = g.npts[a]

\* Mutant: an existing dataset of the same name is replaced.
AddStatusOverwrites(field, key) ==
    IF handle # "open" THEN "closed"
    ELSE IF meta = <<>> THEN (IF Writable THEN "ok" ELSE "read_only")
    ELSE IF ~GeometryMatches(field, meta[1]) THEN "mismatch"
    ELSE IF ~Writable THEN "read_only"
    ELSE "ok"

AddStatus(field, key) ==
    IF handle # "open" THEN "closed"
    ELSE IF meta = <<>> THEN (IF Writable THEN "ok" ELSE "read_only")
    ELSE IF ~GeometryMatches(field, meta[1]) THEN "mismatch"
    ELSE IF key \in DOMAIN data THEN "key_exists"
    ELSE IF ~Writable THEN "read_only"
    ELSE "ok"

Put(store, key, value) ==
    [k \in DOMAIN store \cup {key} |-> IF k = key THEN value ELSE store[k]]

Add(field, key) ==
    LET status == AddStatus(field, key)
    IN  /\ ret' = Raised("add", key, None, None, status, <<field>>)
        /\ IF status = "ok"
           THEN /\ meta' = (IF meta = <<>> THEN <<Geometry(field)>> ELSE meta)
                /\ data' = Put(data, key, field.values)
                /\ added' = Put(added, key, field)
           ELSE UNCHANGED <<meta, data, added>>
        /\ UNCHANGED <<handle, mode>>

----------------------------------------------------------------------------
(* read() *)

ReadStatus(key, min_coords, max_coords) ==
    IF handle # "open" THEN "closed"
    ELSE IF meta = <<>> THEN "no_meta"
    ELSE IF BadRange(min_coords, max_coords) THEN "bad_range"
    ELSE IF meta[1].field_type \notin {"scalar", "vector"} THEN "bad_field_type"
    ELSE IF key \notin DOMAIN data THEN "no_key"
    ELSE "ok"

ReadResult(key, min_coords, max_coords, ovf) ==
    LET status == ReadStatus(key, min_coords, max_coords)
    IN  IF status = "ok"
        THEN LET g == meta[1]
                 idx_start == IdxStart(min_coords, g, ovf)
                 idx_end == IdxEnd(max_coords, idx_start, g, ovf)
             IN  Call("read", key, min_coords, max_coords, "ok",
                      <<WindowField(g, data[key], idx_start, idx_end)>>,
                      idx_start, idx_end)
        ELSE Raised("read", key, min_coords, max_coords, status, <<>>)

Read(key, min_coords, max_coords, ovf) ==
    /\ ret' = ReadResult(key, min_coords, max_coords, ovf)
    /\ UNCHANGED <<handle, mode, meta, data, added>>

----------------------------------------------------------------------------
(* close(), __del__(), __exit__() *)

\* h5py.File.close(): closes a valid handle, does nothing on a closed one.
FileClose(h) == "closed"

Close ==
    /\ handle' = FileClose(handle)
    /\ ret' = Raised("close", 0, None, None, "ok", <<>>)
    /\ UNCHANGED <<mode, meta, data, added>>

Del ==
    /\ handle' = FileClose(handle)
    /\ ret' = Raised("del", 0, None, None, "ok", <<>>)
    /\ UNCHANGED <<mode, meta, data, added>>

\* Mutant: the handle is released on the normal exit path only.
ExitLeaksOnError(exc) ==
    /\ handle' = (IF exc THEN handle ELSE FileClose(handle))
    /\ ret' = Raised("exit", 0, None, None, IF exc THEN "propagated" ELSE "ok", <<>>)
    /\ UNCHANGED <<mode, meta, data, added>>

\* exc: whether the with-block is left by an exception; __exit__ returns None,
\* so the exception propagates, recorded as the status.
Exit(exc) ==
    /\ handle' = FileClose(handle)
    /\ ret' = Raised("exit", 0, None, None, IF exc THEN "propagated" ELSE "ok", <<>>)
    /\ UNCHANGED <<mode, meta, data, added>>

----------------------------------------------------------------------------
(* The mode setter *)

\* h5py.File(path, mode) on the file this instance created or opened:
\* "w-" refuses an existing file, "w" truncates it.
OpenFails(value) == value = "w-"
\* Mutant: every writable mode truncates.
TruncatesWritable(value) == value \in {"w", "r+"}
Truncates(value) == value = "w"

SetMode(value) ==
    /\ mode' = value
    /\ handle' = (IF OpenFails(value) THEN FileClose(handle) ELSE "open")
    /\ meta' = (IF Truncates(value) THEN <<>> ELSE meta)
    /\ data' = (IF Truncates(value) THEN <<>> ELSE data)
    /\ added' = (IF Truncates(value) THEN <<>> ELSE added)
    /\ ret' = Raised("set_mode", 0, None, None,
                     IF OpenFails(value) THEN "open_failed" ELSE "ok", <<>>)

----------------------------------------------------------------------------
(* Specifications *)

\* The life cycle of one instance: every operation, reads with no bound or
\* with one box inside the Base grid.
LifeMin == {None, <<1, 0, 0>>}
LifeMax == {None, <<2, 2, 1>>}

Next ==
    \/ \E field \in Fields, key \in Keys : Add(field, key)
    \/ \E key \in Keys, mn \in LifeMin, mx \in LifeMax, ovf \in CastOverflow :
          Read(key, mn, mx, ovf)
    \/ Close
    \/ Del
    \/ \E exc \in BOOLEAN : Exit(exc)
    \/ \E value \in Modes : SetMode(value)

Spec == Init /\ [][Next]_vars

\* Windowed reads: a container holding one dataset on any of the geometries,
\* read with bounds below, inside, on the corners of, and above the grid.
Uniform(S) == {<<v, v, v>> : v \in S}
ReqMinCoords ==
    {None} \cup Uniform((-1)..(ReqMax - 1)) \cup {g.min_coords : g \in Geoms}
ReqMaxCoords ==
    {None} \cup Uniform((0..ReqMax) \cup {Int32Max}) \cup {MaxCoords(g) : g \in Geoms}

InitRead ==
    /\ handle = "open"
    /\ mode = "r"
    /\ \E g \in Geoms :
          /\ meta = <<g>>
          /\ data = Put(<<>>, 1, FieldOf(g, 1).values)
          /\ added = Put(<<>>, 1, FieldOf(g, 1))
    /\ ret = [op |-> "init", pre |-> [handle |-> "closed", keys |-> {1}], key |-> 0,
              min_coords |-> None, max_coords |-> None, status |-> "ok",
              field |-> <<>>, idx_start |-> None, idx_end |-> None]

NextRead ==
    \E key \in Keys, mn \in ReqMinCoords, mx \in ReqMaxCoords, ovf \in CastOverflow :
        Read(key, mn, mx, ovf)

ReadSpec == InitRead /\ [][NextRead]_vars

----------------------------------------------------------------------------
(* Properties of read(), checked under ReadSpec *)

RecG == meta[1]
Returned == ret.field[1]
ReadOk == ret.op = "read" /\ ret.status = "ok"
Bounded == ret.min_coords # None /\ ret.max_coords # None
InsideExtent ==
    \A a \in Axes : /\ RecG.min_coords[a] <= ret.min_coords[a]
                    /\ ret.max_coords[a] <= MaxCoords(RecG)[a]
Contains(a) ==
    /\ Returned.min_coords[a] <= ret.min_coords[a]
    /\ MaxCoords(Returned)[a] >= ret.max_coords[a]

\* C1 as stated: every successful read with both bounds (min_coords <
\* max_coords on every axis) returns a field whose coordinate range contains
\* the requested range on every axis.
C1_ContainsEveryRequest ==
    (ReadOk /\ Bounded) => \A a \in Axes : Contains(a)

\* C1 amended: on every axis, the returned minimum is at most the requested
\* minimum when that is not below the recorded minimum, and the returned
\* maximum is at least the requested maximum when that is not above the
\* recorded maximum; a request inside the grid extent is contained.
C1_ContainsRequestInsideExtent ==
    (ReadOk /\ Bounded) =>
        \A a \in Axes :
            /\ RecG.min_coords[a] <= ret.min_coords[a]
                  => Returned.min_coords[a] <= ret.min_coords[a]
            /\ ret.max_coords[a] <= MaxCoords(RecG)[a]
                  => MaxCoords(Returned)[a] >= ret.max_coords[a]

C1_Witness ==
    /\ ReadOk /\ Bounded /\ InsideExtent
    /\ \E a \in Axes : ret.idx_start[a] > 0 /\ ret.idx_end[a] < RecG.npts[a]

\* C2: on no axis does a contiguous index window [lo, hi) of the recorded
\* grid with fewer points than the returned one contain the requested
\* interval [min_coords, max_coords].
C2_WindowIsMinimal ==
    (ReadOk /\ Bounded) =>
        \A a \in Axes :
            \A lo \in 0..(RecG.npts[a] - 1) :
                \A hi \in (lo + 1)..RecG.npts[a] :
                    (hi - lo < Returned.npts[a]) =>
                        ~ /\ RecG.min_coords[a] + lo * RecG.node_intervals[a]
                                <= ret.min_coords[a]
                          /\ RecG.min_coords[a] + (hi - 1) * RecG.node_intervals[a]
                                >= ret.max_coords[a]

C2_Witness ==
    /\ ReadOk /\ Bounded /\ InsideExtent
    /\ \A a \in Axes : Contains(a)
    /\ \E a \in Axes : 1 < Returned.npts[a] /\ Returned.npts[a] < RecG.npts[a]
    /\ \E a \in Axes :
          (ret.max_coords[a] - RecG.min_coords[a]) % RecG.node_intervals[a] # 0

\* read(key) with no bounds, on a stored key of an open container.
Unbounded(key) == WindowField(RecG, data[key], [a \in Axes |-> 0], RecG.npts)

FullExtentRead ==
    /\ ret.op = "read"
    /\ ret.pre.handle = "open"
    /\ meta # <<>>
    /\ ret.key \in DOMAIN data
    /\ ret.min_coords = RecG.min_coords
    /\ ret.max_coords = MaxCoords(RecG)

\* C4 as stated: on every recorded geometry, an axis with a single sample
\* included, the read of a stored key with bounds equal to the full grid
\* extent returns the field that the read with no bounds returns.
C4_FullExtentReadIsUnbounded ==
    FullExtentRead => (ret.status = "ok" /\ Returned = Unbounded(ret.key))

\* What the code does hold to: with at least two samples on every axis the
\* full-extent read is the unbounded read; with a single sample on an axis it
\* is refused (min_coords >= max_coords there).
FullExtentReadTwoSamples ==
    FullExtentRead =>
        IF \A a \in Axes : RecG.npts[a] >= 2
        THEN ret.status = "ok" /\ Returned = Unbounded(ret.key)
        ELSE ret.status = "bad_range"

AcceptedRead ==
    /\ ret.op = "read"
    /\ ret.pre.handle = "open"
    /\ meta # <<>>
    /\ ret.key \in DOMAIN data
    /\ ~BadRange(ret.min_coords, ret.max_coords)

WindowInGrid ==
    \A a \in Axes :
        /\ 0 <= ret.idx_start[a]
        /\ ret.idx_start[a] < ret.idx_end[a]
        /\ ret.idx_end[a] <= RecG.npts[a]
        /\ Returned.npts[a] >= 1

\* C7 as stated: a read of a stored key whose bounds pass the range check
\* succeeds with 0 <= idx_start < idx_end <= npts on every axis; a requested
\* minimum below the recorded minimum gives idx_start = 0 and a requested
\* maximum above the recorded maximum gives idx_end = npts on that axis.
C7_ClampedAtEdges ==
    AcceptedRead =>
        /\ ret.status = "ok"
        /\ WindowInGrid
        /\ \A a \in Axes :
              /\ (ret.min_coords # None /\ ret.min_coords[a] < RecG.min_coords[a])
                    => ret.idx_start[a] = 0
              /\ (ret.max_coords # None /\ ret.max_coords[a] > MaxCoords(RecG)[a])
                    => ret.idx_end[a] = RecG.npts[a]

\* What the code does hold to: the window is always inside the grid and not
\* empty, the lower clamp always holds, and the upper clamp holds unless
\* ceil(...) + 1 is beyond the int32 range.
ClampedUnlessCastOverflows ==
    AcceptedRead =>
        /\ ret.status = "ok"
        /\ WindowInGrid
        /\ \A a \in Axes :
              /\ (ret.min_coords # None /\ ret.min_coords[a] < RecG.min_coords[a])
                    => ret.idx_start[a] = 0
              /\ (/\ ret.max_coords # None
                  /\ ret.max_coords[a] > MaxCoords(RecG)[a]
                  /\ Ceil(ret.max_coords[a] - RecG.min_coords[a], RecG.node_intervals[a])
                        < Int32Max)
                    => ret.idx_end[a] = RecG.npts[a]

\* C9: a successful read keeps the recorded node_intervals, returns
\* min_coords = recorded min_coords + idx_start * node_intervals and
\* npts = idx_end - idx_start, values of shape npts, and at every index i of
\* the returned field the value the stored dataset has at idx_start + i, which
\* is the node of the same coordinate.
C9_WindowKeepsNodes ==
    ReadOk =>
        /\ Returned.node_intervals = RecG.node_intervals
        /\ \A a \in Axes :
              /\ Returned.min_coords[a]
                    = RecG.min_coords[a] + ret.idx_start[a] * RecG.node_intervals[a]
              /\ Returned.npts[a] = ret.idx_end[a] - ret.idx_start[a]
        /\ DOMAIN Returned.values = Idx(Returned.npts)
        /\ \A i \in DOMAIN Returned.values :
              LET j == <<i[1] + ret.idx_start[1], i[2] + ret.idx_start[2],
                         i[3] + ret.idx_start[3]>>
              IN  /\ j \in DOMAIN data[ret.key]
                  /\ Returned.values[i] = data[ret.key][j]
                  /\ \A a \in Axes :
                        Returned.min_coords[a] + i[a] * Returned.node_intervals[a]
                            = RecG.min_coords[a] + j[a] * RecG.node_intervals[a]

C9_Witness ==
    /\ ReadOk
    /\ \E a \in Axes : ret.idx_start[a] > 0 /\ ret.idx_end[a] < RecG.npts[a]
    /\ Returned.field_type = "vector"

----------------------------------------------------------------------------
(* Properties of the life cycle, checked under Spec *)

NoBounds == ret.min_coords = None /\ ret.max_coords = None

\* C3: a successful read(key) with no bounds returns the field that the
\* successful add(field, key) was given: the same coord_sys, field_type,
\* min_coords, node_intervals, npts and values, whatever adds, successful or
\* failed, came in between.
C3_RoundTrip ==
    (ReadOk /\ NoBounds) =>
        /\ ret.key \in DOMAIN added
        /\ Returned.coord_sys = added[ret.key].coord_sys
        /\ Returned.field_type = added[ret.key].field_type
        /\ Returned.min_coords = added[ret.key].min_coords
        /\ Returned.node_intervals = added[ret.key].node_intervals
        /\ Returned.npts = added[ret.key].npts
        /\ Returned.values = added[ret.key].values

C3_Witness ==
    /\ ReadOk /\ NoBounds
    /\ DOMAIN data = Keys
    /\ \E k \in Keys : data[k] # data[ret.key]
    /\ Returned.values = data[ret.key]

\* C5: once a geometry is recorded, an add whose field differs from it in a
\* single component fails and leaves the recorded geometry and the stored
\* datasets as they were; the key is not created.
C5_MismatchRejected ==
    [][(/\ ret'.op = "add"
        /\ meta # <<>>
        /\ Differences(Geometry(ret'.field[1]), meta[1]) = 1)
       => (/\ ret'.status # "ok"
           /\ meta' = meta
           /\ data' = data)]_vars

C5_Witness ==
    /\ ret.op = "add"
    /\ ret.status = "mismatch"
    /\ ret.pre.keys # {}
    /\ ret.key \notin DOMAIN data
    /\ Differences(Geometry(ret.field[1]), meta[1]) = 1
    /\ ret.field[1].npts # meta[1].npts

\* C6: an add on a key that already holds a dataset fails and leaves every
\* stored dataset and the recorded geometry as they were, so that read(key)
\* still returns the first field.
C6_DuplicateKeyRejected ==
    [][\A key \in DOMAIN data :
          (ret'.op = "add" /\ ret'.key = key)
          => (/\ ret'.status # "ok"
              /\ meta' = meta
              /\ data' = data
              /\ added' = added
              /\ handle' = "open" =>
                    ReadResult(key, None, None, Int32Min)'.field = <<added[key]>>)]_vars

C6_Witness ==
    /\ ret.op = "add"
    /\ ret.status = "key_exists"
    /\ ret.field[1] # added[ret.key]
    /\ data[ret.key] = added[ret.key].values

Release == {"close", "del", "exit"}

\* C8: after close(), __del__() or __exit__() (left normally or by an
\* exception) the handle is closed, whether it was open or already closed
\* before; the call changes nothing else, and close() returns success.
C8_ReleaseIsIdempotent ==
    [][(ret'.op \in Release)
       => (/\ handle' = "closed"
           /\ ret'.op = "close" => ret'.status = "ok"
           /\ UNCHANGED <<mode, meta, data>>)]_vars

C8_Witness ==
    /\ ret.op = "exit"
    /\ ret.status = "propagated"
    /\ ret.pre.handle = "closed"
    /\ handle = "closed"

\* C10: a successful switch to "r" or "r+" leaves the recorded geometry and
\* every dataset unchanged, and on an open instance every read returns what it
\* returned before; a successful switch to "w" empties the container: every
\* read of a key stored before fails, every add is accepted, and the next
\* successful add records its field's geometry.
C10_ModeChangeEffect ==
    [][/\ (ret'.op = "set_mode" /\ ret'.status = "ok" /\ mode' \in {"r", "r+"})
          => (/\ meta' = meta
              /\ data' = data
              /\ handle = "open" =>
                    \A key \in Keys, mn \in LifeMin, mx \in LifeMax :
                        ReadResult(key, mn, mx, Int32Min)'
                            = ReadResult(key, mn, mx, Int32Min))
       /\ (ret'.op = "set_mode" /\ ret'.status = "ok" /\ mode' = "w")
          => (/\ meta' = <<>>
              /\ data' = <<>>
              /\ \A key \in DOMAIN data : ReadStatus(key, None, None)' # "ok"
              /\ \A field \in Fields, key \in Keys : AddStatus(field, key)' = "ok")
       /\ (ret'.op = "add" /\ ret'.status = "ok" /\ meta = <<>>)
          => (/\ meta' = <<Geometry(ret'.field[1])>>
              /\ DOMAIN data' = {ret'.key})
      ]_vars

C10_Witness ==
    /\ ret.op = "set_mode"
    /\ ret.status = "ok"
    /\ mode = "w"
    /\ ret.pre.keys = Keys
    /\ meta = <<>>
    /\ data = <<>>

====
